---------------------------- MODULE Spec2Model ----------------------------
(***************************************************************************)
(* Model of backend/maincctv.py: the capture loop, its three alert rules,  *)
(* the incident store written by log_incident, and the detached audio      *)
(* threads started for every fired rule.                                   *)
(*                                                                         *)
(* A Python string is modelled as a sequence of tokens, so that formatting *)
(* (f-strings, strftime), splitting and CSV conversion are computed.       *)
(***************************************************************************)
EXTENDS Integers, Sequences, FiniteSets, TLC

\* ------------------------------------------------------------- bounds
\* most persons the detector reports in one frame
MaxPeople == 4
\* frames read from the camera, over all runs of the program
MaxFrames == 2

\* ------------------------------------------------- program constants
\* is_nighttime: current_hour < 6
NightEndHour == 6
\* is_nighttime: current_hour >= 18
NightStartHour == 18
\* cv2.waitKey(1) & 0xFF
KeyMask == 255
\* ord('q')
OrdQ == 113

\* ------------------------------------------------------ environment
\* hours datetime.now() may show (both edges of the night interval)
Hours == {5, 6, 17, 18}
Now == {[day |-> "2024-03-01", hour |-> h] : h \in Hours}
\* hour shown when a row is stamped
StampHours == {5}
StampNow == {[day |-> "2024-03-01", hour |-> h] : h \in StampHours}
\* cv2.waitKey results: no key, 'q', 'Q', 'q' with a modifier bit set
Keys == {-1, 113, 81, 369}
GenderNames == {"Male", "Female"}
GenderLists == UNION {[1..n -> GenderNames] : n \in 0..MaxPeople}

NoneCoords == [isNone |-> TRUE, lat |-> 0, lng |-> 0]
\* answers of geocoder.ip('me')
GeoResults ==
  { [ok |-> TRUE, latlng |-> [isNone |-> FALSE, lat |-> 28, lng |-> 77],
     city |-> <<"Delhi">>],
    [ok |-> FALSE, latlng |-> NoneCoords, city |-> <<>>] }

\* ---------------------------------------------------- pure functions
Digits == <<"0", "1", "2", "3", "4", "5", "6", "7", "8", "9">>

RECURSIVE Str(_)
\* str(n) of a non-negative integer, as used by an f-string
Str(n) == IF n < 10 THEN <<Digits[n + 1]>>
          ELSE Str(n \div 10) \o <<Digits[(n % 10) + 1]>>

RECURSIVE Count(_, _)
\* list.count(x)
Count(l, x) == IF l = <<>> THEN 0
               ELSE (IF Head(l) = x THEN 1 ELSE 0) + Count(Tail(l), x)

is_nighttime(current_hour) ==
  current_hour < NightEndHour \/ current_hour >= NightStartHour

\* get_location(): (g.latlng, g.city) if g.ok else (None, "Unknown")
get_location(g) == IF g.ok THEN <<g.latlng, g.city>>
                   ELSE <<NoneCoords, <<"Unknown">>>>

\* datetime.strftime('%Y-%m-%d %H:%M:%S')
strftime(dt) ==
  <<dt.day, " ">>
    \o (IF dt.hour < 10 THEN <<"0">> ELSE <<>>) \o Str(dt.hour)
    \o <<":00:00">>

RECURSIVE Split(_, _)
\* str.split(sep): the pieces between the separators
Split(s, sep) ==
  IF s = <<>> THEN << <<>> >>
  ELSE LET rest == Split(Tail(s), sep)
       IN IF Head(s) = sep THEN << <<>> >> \o rest
          ELSE << <<Head(s)>> \o rest[1] >> \o Tail(rest)

\* csv.writer's conversion of the coordinates field: None is written as ''
CsvCoords(c) == IF c.isNone THEN <<>>
                ELSE <<"[">> \o Str(c.lat) \o <<", ">> \o Str(c.lng) \o <<"]">>

HeaderRow ==
  << <<"Date">>, <<"Time">>, <<"Incident Type">>, <<"Location">>,
     <<"Coordinates">> >>

\* the data row log_incident writes
DataRow(dt, incident, location) ==
  LET date_time == Split(strftime(dt), " ")
  IN << date_time[1], date_time[2], incident, location[2],
        CsvCoords(location[1]) >>

LabelAlone == <<"Woman Alone at Night">>
LabelSos == <<"SOS Gesture Detected">>
\* f"1 Female with {num_males} Males"
LabelSurrounded(n) == <<"1 Female with ">> \o Str(n) \o <<" Males">>

\* ------------------------------------------------------------- state
VARIABLES
  pc,              \* position of the main thread
  frames,          \* frames read so far, over all runs
  cap_opened,      \* cap.isOpened()
  location,        \* (location_coords, location_city)
  ret,             \* ret of the last cap.read()
  num_males, num_females, sos_detected,
  night,           \* value is_nighttime() returned for this frame
  alert_triggered,
  incident_type,   \* argument of the log_incident call being made
  key,             \* last result of cv2.waitKey(1)
  exc,             \* the uncaught exception that ended the run, if any
  file_exists,     \* os.path.isfile(incident_report_file)
  store,           \* rows of incident_reports.csv
  threads,         \* number of audio threads of this run still playing
  audioFailed,     \* history: an audio thread of this run has raised
  frameAudio,      \* history: audio threads started for this frame
  frameCalls,      \* history: incident types passed to log_incident this frame
  lost,            \* history: a log_incident call of this run raised
  appended,        \* history: incident types of the calls that returned
  streakLabel, streakLen, streakCalls, streakAudio
                   \* history: the run of consecutive completed frames whose
                   \* inputs ask for the same label

vars == <<pc, frames, cap_opened, location, ret, num_males, num_females,
          sos_detected, night, alert_triggered, incident_type, key, exc,
          file_exists, store, threads, audioFailed, frameAudio, frameCalls,
          lost, appended, streakLabel, streakLen, streakCalls, streakAudio>>

\* what the main thread reads and writes
mainVars == <<pc, frames, cap_opened, location, ret, num_males,
              num_females, sos_detected, night, alert_triggered,
              incident_type, key, exc, file_exists, store>>

histVars == <<audioFailed, frameAudio, frameCalls, lost, appended,
              streakLabel, streakLen,
              streakCalls, streakAudio>>

LogPcs == {"log1", "log2", "log3"}
Stopped == {"done", "crashed"}

\* ------------------------------------------------ the three conditions
\* variants of the definitions below, each changed the way a slip in the
\* code would change it; the properties at the end must tell them apart
Cond1Loose(at, nt, nf, nm) == ~at /\ nt /\ nf >= 1 /\ nm = 0
Cond2NoGuard(at, sos) == sos
Cond3NoGuard(at, nf, nm) == nf = 1 /\ nm > 1
Cond3Loose(at, nf, nm) == ~at /\ nf = 1 /\ nm >= 1
AlertKept(previous) == previous
IsQuitKeyAny(k) == k # -1
StartThreadForgotten(ths) == ths
MainWaitsForJoin(ths) == ths > 0
AfterLogErrorSwallowed(after) == after

\* line 138: not alert_triggered and is_nighttime() and num_females == 1
\*           and num_males == 0
Cond1(at, nt, nf, nm) == ~at /\ nt /\ nf = 1 /\ nm = 0

\* line 145: not alert_triggered and sos_detected
Cond2(at, sos) == ~at /\ sos

\* line 151: not alert_triggered and num_females == 1 and num_males > 1
Cond3(at, nf, nm) == ~at /\ nf = 1 /\ nm > 1

\* line 135: alert_triggered = False at the top of every iteration
AlertAtFrameStart(previous) == FALSE

\* line 159: cv2.waitKey(1) & 0xFF == ord('q')
IsQuitKey(k) == (k % (KeyMask + 1)) = OrdQ

\* threading.Thread(target=play_alert_sound).start(): the number of live
\* threads after the start (no reference to the thread is kept); the caller
\* goes on at once
StartThread(ths) == ths + 1

\* start() is never followed by join(): the main thread waits for no thread
MainWaitsFor(ths) == FALSE

\* an exception raised inside a thread ends that thread only; this is the
\* position of the main thread after it
AfterThreadError(at) == at

\* no try/except surrounds the log_incident calls: an exception raised by
\* log_incident leaves the loop instead of going on to `after`
AfterLogError(after) == "crashed"

\* lines 58-63: the rows after a successful call
WrittenRows(exists, rows, row) ==
  IF ~exists THEN rows \o <<HeaderRow, row>> ELSE Append(rows, row)

\* lines 60-63: what a write that raises can leave of the rows buffered
\* before the data row
FlushedBeforeError(exists) ==
  IF ~exists THEN {<<>>, <<HeaderRow>>} ELSE {<<>>}

\* the statement that follows the log_incident call made at position p
AfterLog(p) == CASE p = "log1" -> "cond2"
                 [] p = "log2" -> "cond3"
                 [] p = "log3" -> "show"

\* history only: the label the rules of the spec ask for, <<>> for none
Expected(nm, nf, sos, nt) ==
  IF nt /\ nf = 1 /\ nm = 0 THEN LabelAlone
  ELSE IF sos THEN LabelSos
  ELSE IF nf = 1 /\ nm > 1 THEN LabelSurrounded(nm)
  ELSE <<>>

CountOf(calls, label) == Cardinality({i \in DOMAIN calls : calls[i] = label})

\* -------------------------------------------------------------- Init
Init ==
  /\ pc = "while"
  /\ frames = 0
  /\ cap_opened \in BOOLEAN
  /\ \E g \in GeoResults : location = get_location(g)
  /\ ret = TRUE
  /\ num_males = 0 /\ num_females = 0 /\ sos_detected = FALSE
  /\ night = FALSE
  /\ alert_triggered = FALSE
  /\ incident_type = <<>>
  /\ key = -1
  /\ exc = "none"
  /\ file_exists = FALSE
  /\ store = <<>>
  /\ threads = 0 /\ audioFailed = FALSE
  /\ frameAudio = 0 /\ frameCalls = <<>> /\ lost = FALSE
  /\ appended = <<>>
  /\ streakLabel = <<>> /\ streakLen = 0 /\ streakCalls = 0 /\ streakAudio = 0

\* ----------------------------------------------------------- actions
\* line 124: while cap.isOpened() is false, the loop is left (or never entered)
CaptureClosed ==
  /\ pc = "while" /\ ~cap_opened
  /\ pc' = "done"
  /\ UNCHANGED <<frames, cap_opened, location, ret, num_males,
                 num_females, sos_detected, night, alert_triggered,
                 incident_type, key, exc, file_exists, store, threads>>
  /\ UNCHANGED histVars

\* lines 125-127: cap.read() returns no frame
EndOfStream ==
  /\ pc = "while" /\ cap_opened
  /\ ret' = FALSE
  /\ pc' = "done"
  /\ UNCHANGED <<frames, cap_opened, location, num_males, num_females,
                 sos_detected, night, alert_triggered, incident_type, key,
                 exc, file_exists, store, threads>>
  /\ UNCHANGED histVars

\* lines 125-135: a frame is read, the detectors run, the counts are taken
\* and alert_triggered is cleared.  genders is a local list read only
\* through count(); the value is_nighttime() will return is not known yet.
ReadFrame ==
  /\ pc = "while" /\ cap_opened /\ frames < MaxFrames
  /\ ret' = TRUE
  /\ frames' = frames + 1
  /\ \E genders \in GenderLists, sos \in BOOLEAN :
       /\ num_males' = Count(genders, "Male")
       /\ num_females' = Count(genders, "Female")
       /\ sos_detected' = sos
  /\ alert_triggered' = AlertAtFrameStart(alert_triggered)
  /\ night' = FALSE
  /\ pc' = "cond1"
  /\ frameAudio' = 0 /\ frameCalls' = <<>>
  /\ UNCHANGED <<cap_opened, location, incident_type, key, exc,
                 file_exists, store, threads, audioFailed, lost, appended, streakLabel,
                 streakLen, streakCalls, streakAudio>>

\* lines 129-130: a detector raises; nothing catches it
DetectRaises ==
  /\ pc = "while" /\ cap_opened /\ frames < MaxFrames
  /\ ret' = TRUE
  /\ frames' = frames + 1
  /\ pc' = "crashed"
  /\ exc' = "detect"
  /\ UNCHANGED <<cap_opened, location, num_males, num_females,
                 sos_detected, night, alert_triggered, incident_type, key,
                 file_exists, store, threads>>
  /\ UNCHANGED histVars

\* lines 138-140: condition 1 is evaluated; when it holds the audio thread
\* is started and log_incident is about to be called
Condition1 ==
  /\ pc = "cond1"
  /\ \E dt \in Now :
       /\ night' = is_nighttime(dt.hour)
       /\ IF Cond1(alert_triggered, is_nighttime(dt.hour), num_females,
                   num_males)
          THEN /\ threads' = StartThread(threads)
               /\ frameAudio' = frameAudio + (StartThread(threads) - threads)
               /\ incident_type' = LabelAlone
               /\ pc' = "log1"
          ELSE /\ pc' = "cond2"
               /\ UNCHANGED <<threads, frameAudio, incident_type>>
  /\ UNCHANGED <<frames, cap_opened, location, ret, num_males,
                 num_females, sos_detected, alert_triggered, key, exc,
                 file_exists, store, audioFailed, frameCalls, lost, appended,
                 streakLabel,
                 streakLen, streakCalls, streakAudio>>

\* lines 145-146
Condition2 ==
  /\ pc = "cond2"
  /\ IF Cond2(alert_triggered, sos_detected)
     THEN /\ threads' = StartThread(threads)
          /\ frameAudio' = frameAudio + (StartThread(threads) - threads)
          /\ incident_type' = LabelSos
          /\ pc' = "log2"
     ELSE /\ pc' = "cond3"
          /\ UNCHANGED <<threads, frameAudio, incident_type>>
  /\ UNCHANGED <<frames, cap_opened, location, ret, num_males,
                 num_females, sos_detected, night, alert_triggered, key, exc,
                 file_exists, store, audioFailed, frameCalls, lost, appended,
                 streakLabel,
                 streakLen, streakCalls, streakAudio>>

\* lines 151-153
Condition3 ==
  /\ pc = "cond3"
  /\ IF Cond3(alert_triggered, num_females, num_males)
     THEN /\ threads' = StartThread(threads)
          /\ frameAudio' = frameAudio + (StartThread(threads) - threads)
          /\ incident_type' = LabelSurrounded(num_males)
          /\ pc' = "log3"
     ELSE /\ pc' = "show"
          /\ UNCHANGED <<threads, frameAudio, incident_type>>
  /\ UNCHANGED <<frames, cap_opened, location, ret, num_males,
                 num_females, sos_detected, night, alert_triggered, key, exc,
                 file_exists, store, audioFailed, frameCalls, lost, appended,
                 streakLabel,
                 streakLen, streakCalls, streakAudio>>

\* lines 141-142, 147-148, 154-155 with lines 56-63: log_incident returns
\* and alert_triggered is set
LogIncident ==
  /\ pc \in LogPcs
  /\ ~MainWaitsFor(threads)
  /\ \E dt \in StampNow :
       store' = WrittenRows(file_exists, store,
                            DataRow(dt, incident_type, location))
  /\ file_exists' = TRUE
  /\ alert_triggered' = TRUE
  /\ pc' = AfterLog(pc)
  /\ frameCalls' = Append(frameCalls, incident_type)
  /\ appended' = Append(appended, incident_type)
  /\ UNCHANGED <<frames, cap_opened, location, ret, num_males,
                 num_females, sos_detected, night, incident_type, key, exc,
                 threads, audioFailed, frameAudio, lost, streakLabel,
                 streakLen, streakCalls, streakAudio>>

\* line 58: open() raises (permission denied); nothing is created or written
LogIncidentOpenFails ==
  /\ pc \in LogPcs
  /\ ~MainWaitsFor(threads)
  /\ pc' = AfterLogError(AfterLog(pc))
  /\ exc' = "log"
  /\ lost' = TRUE
  /\ UNCHANGED appended
  /\ frameCalls' = Append(frameCalls, incident_type)
  /\ UNCHANGED <<frames, cap_opened, location, ret, num_males,
                 num_females, sos_detected, night, alert_triggered,
                 incident_type, key, file_exists, store, threads, audioFailed,
                 frameAudio, streakLabel, streakLen, streakCalls, streakAudio>>

\* lines 58-63: open(mode='a') has created the file, the buffered rows are
\* flushed when the with block closes it, and that write raises (disk full):
\* the file is there; the data row of this call is not in it, the header
\* row (buffered before it when the file was new) may be.  A row cut in
\* the middle is not modelled.
LogIncidentWriteFails ==
  /\ pc \in LogPcs
  /\ ~MainWaitsFor(threads)
  /\ file_exists' = TRUE
  /\ \E kept \in FlushedBeforeError(file_exists) : store' = store \o kept
  /\ pc' = AfterLogError(AfterLog(pc))
  /\ exc' = "log"
  /\ lost' = TRUE
  /\ UNCHANGED appended
  /\ frameCalls' = Append(frameCalls, incident_type)
  /\ UNCHANGED <<frames, cap_opened, location, ret, num_males,
                 num_females, sos_detected, night, alert_triggered,
                 incident_type, key, threads, audioFailed, frameAudio,
                 streakLabel, streakLen, streakCalls, streakAudio>>

\* lines 157-160: the frame is shown and the key is polled.  The frame is
\* complete here: the history of the current streak is brought up to date.
ShowAndWaitKey ==
  /\ pc = "show"
  /\ \E k \in Keys :
       /\ key' = k
       /\ pc' = IF IsQuitKey(k) THEN "done" ELSE "while"
  /\ LET e == Expected(num_males, num_females, sos_detected, night)
     IN IF e = <<>>
        THEN /\ streakLabel' = <<>> /\ streakLen' = 0
             /\ streakCalls' = 0 /\ streakAudio' = 0
        ELSE IF e = streakLabel
        THEN /\ streakLabel' = e /\ streakLen' = streakLen + 1
             /\ streakCalls' = streakCalls + CountOf(frameCalls, e)
             /\ streakAudio' = streakAudio + frameAudio
        ELSE /\ streakLabel' = e /\ streakLen' = 1
             /\ streakCalls' = CountOf(frameCalls, e)
             /\ streakAudio' = frameAudio
  /\ UNCHANGED <<frames, cap_opened, location, ret, num_males,
                 num_females, sos_detected, night, alert_triggered,
                 incident_type, exc, file_exists, store, threads, audioFailed,
                 frameAudio, frameCalls, lost, appended>>

\* lines 42-43: playsound returns in one of the audio threads
AudioFinishes ==
  /\ threads > 0
  /\ threads' = threads - 1
  /\ UNCHANGED mainVars
  /\ UNCHANGED histVars

\* lines 42-43: playsound raises in one of the audio threads (no device, no
\* alert_sound.mp3)
AudioFails ==
  /\ threads > 0
  /\ threads' = threads - 1
  /\ audioFailed' = TRUE
  /\ pc' = AfterThreadError(pc)
  /\ UNCHANGED <<frames, cap_opened, location, ret, num_males,
                 num_females, sos_detected, night, alert_triggered,
                 incident_type, key, exc, file_exists, store, frameAudio,
                 frameCalls, lost, appended, streakLabel, streakLen,
                 streakCalls, streakAudio>>

\* the program is started again after a run has ended: lines 121-122 run
\* anew, incident_reports.csv is the file the earlier run left
Restart ==
  /\ pc \in Stopped
  /\ pc' = "while"
  /\ cap_opened' \in BOOLEAN
  /\ \E g \in GeoResults : location' = get_location(g)
  /\ ret' = TRUE
  /\ num_males' = 0 /\ num_females' = 0 /\ sos_detected' = FALSE
  /\ night' = FALSE
  /\ alert_triggered' = FALSE
  /\ incident_type' = <<>>
  /\ key' = -1
  /\ exc' = "none"
  /\ threads' = 0 /\ audioFailed' = FALSE
  /\ frameAudio' = 0 /\ frameCalls' = <<>> /\ lost' = FALSE
  /\ streakLabel' = <<>> /\ streakLen' = 0
  /\ streakCalls' = 0 /\ streakAudio' = 0
  /\ UNCHANGED <<frames, file_exists, store, appended>>

Next ==
  \/ CaptureClosed
  \/ EndOfStream
  \/ ReadFrame
  \/ DetectRaises
  \/ Condition1
  \/ Condition2
  \/ Condition3
  \/ LogIncident
  \/ LogIncidentOpenFails
  \/ LogIncidentWriteFails
  \/ ShowAndWaitKey
  \/ AudioFinishes
  \/ AudioFails
  \/ Restart

Spec == Init /\ [][Next]_vars

\* ------------------------------------------------------- properties
AloneHolds == night /\ num_females = 1 /\ num_males = 0
SurroundedLabels == {LabelSurrounded(n) : n \in 0..MaxPeople}
LastRowType == IF store = <<>> THEN <<>> ELSE store[Len(store)][3]

\* C1: processing one frame calls log_incident at most once, whatever the
\* counts, the gesture flag and the time of day, also when the inputs
\* satisfy more than one rule.
C1_AtMostOneRecordPerFrame ==
  /\ Len(frameCalls) <= 1
  /\ pc = "show" => Len(frameCalls) = IF alert_triggered THEN 1 ELSE 0

\* a complete frame whose inputs satisfy two rules and that logged once
C1_Witness ==
  /\ pc = "show" /\ Len(frameCalls) = 1
  /\ sos_detected /\ num_females = 1 /\ num_males > 1

\* C2: the frame's record is "Woman Alone at Night" exactly when it is
\* night, there is one female and no male, whether or not a gesture is
\* seen; such a frame never logs "SOS Gesture Detected".
C2_AloneIff ==
  /\ \A i \in DOMAIN frameCalls : frameCalls[i] = LabelAlone => AloneHolds
  /\ pc = "show" =>
       /\ (frameCalls = <<LabelAlone>>) <=> AloneHolds
       /\ AloneHolds => /\ LastRowType = LabelAlone
                        /\ CountOf(frameCalls, LabelSos) = 0

\* night, one female, no male and a gesture: logged as "Woman Alone at Night"
C2_Witness ==
  /\ pc = "show" /\ AloneHolds /\ sos_detected
  /\ frameCalls = <<LabelAlone>> /\ LastRowType = LabelAlone

\* C3: the frame's record is "SOS Gesture Detected" exactly when a gesture
\* is seen and the lone-woman-at-night condition does not hold; a gesture
\* with one female and several males is logged as the SOS incident.
C3_SosIff ==
  /\ \A i \in DOMAIN frameCalls :
       frameCalls[i] = LabelSos => sos_detected /\ ~AloneHolds
  /\ pc = "show" =>
       /\ (frameCalls = <<LabelSos>>) <=> (sos_detected /\ ~AloneHolds)
       /\ sos_detected /\ ~AloneHolds => LastRowType = LabelSos

\* a gesture with one female and two or more males: logged as SOS
C3_Witness ==
  /\ pc = "show" /\ sos_detected /\ num_females = 1 /\ num_males > 1
  /\ frameCalls = <<LabelSos>> /\ LastRowType = LabelSos

\* C4: the frame's record is "1 Female with n Males" exactly when neither
\* earlier rule fired, there is one female and more than one male; n is the
\* frame's num_males; no other counts give such a record.
C4_SurroundedIff ==
  LET holds == ~AloneHolds /\ ~sos_detected /\ num_females = 1
               /\ num_males > 1
  IN /\ \A i \in DOMAIN frameCalls :
          frameCalls[i] \in SurroundedLabels =>
            holds /\ frameCalls[i] = LabelSurrounded(num_males)
     /\ pc = "show" =>
          /\ (\E i \in DOMAIN frameCalls : frameCalls[i] \in SurroundedLabels)
               <=> holds
          /\ holds => /\ frameCalls = <<LabelSurrounded(num_males)>>
                      /\ LastRowType = LabelSurrounded(num_males)
          /\ num_females = 2 /\ num_males = 2 /\ ~sos_detected
               => frameCalls = <<>>

\* one female and three males, no gesture: "1 Female with 3 Males"
C4_Witness ==
  /\ pc = "show" /\ num_females = 1 /\ num_males = 3 /\ ~sos_detected
  /\ frameCalls = << <<"1 Female with ", "3", " Males">> >>
  /\ LastRowType = <<"1 Female with ", "3", " Males">>

\* C5: after N >= 1 calls of log_incident that returned, starting from a
\* store without rows, the store is the header row followed by the N data
\* rows of five fields, in call order, each with its call's incident type.
C5_HeaderThenRows ==
  Len(appended) >= 1 =>
    /\ Len(store) = Len(appended) + 1
    /\ store[1] = HeaderRow
    /\ \A i \in 1..Len(appended) :
         /\ i + 1 <= Len(store)
         /\ Len(store[i + 1]) = 5
         /\ store[i + 1][3] = appended[i]

\* C6: a failed append is never passed over: a raising log_incident call
\* ends the loop, and wherever the loop goes on after a rule fired, the
\* frame's record is the last row of the store.
C6_FailureSurfaced ==
  /\ lost => pc = "crashed" /\ exc = "log"
  /\ alert_triggered /\ pc # "crashed" =>
       /\ store # <<>>
       /\ LastRowType = incident_type
       /\ frameCalls = <<incident_type>>

\* a rule fired, log_incident raised, the record is not in the store and the
\* loop has stopped
C6_Witness ==
  /\ lost /\ pc = "crashed" /\ exc = "log"
  /\ frameCalls # <<>> /\ store = <<>>

\* a step of an audio thread leaves the main thread's variables alone
AudioStep ==
  threads' < threads /\ ~(pc \in Stopped /\ pc' = "while") => UNCHANGED mainVars

\* C7: the main thread never waits for an audio thread before it appends,
\* a step of an audio thread (end or failure of playback) changes nothing
\* the main thread reads or writes, and no run is ended by an audio thread.
C7_AudioIndependent ==
  /\ [](pc \in LogPcs => ENABLED LogIncident)
  /\ [](pc = "crashed" => exc \in {"log", "detect"})
  /\ [][AudioStep]_vars

\* the audio thread of the first frame has failed, the record of that frame
\* is in the store and the loop is back at its top
C7_Witness ==
  /\ pc = "while" /\ frames = 1 /\ alert_triggered /\ audioFailed
  /\ threads = 0 /\ LastRowType = incident_type /\ ~lost

\* C8: over a frame the audio threads started and the log_incident calls
\* made are equal in number: both 1 when a rule holds, both 0 otherwise;
\* they differ only between the start of the thread and the call.
C8_AudioMatchesAppend ==
  /\ pc \notin LogPcs => frameAudio = Len(frameCalls)
  /\ pc \in LogPcs => frameAudio = Len(frameCalls) + 1
  /\ pc = "show" =>
       LET n == IF Expected(num_males, num_females, sos_detected, night)
                   = <<>> THEN 0 ELSE 1
       IN frameAudio = n /\ Len(frameCalls) = n

\* audio threads of two frames play at the same time after both appends
C8_Witness ==
  /\ pc = "show" /\ threads = 2 /\ frameAudio = 1 /\ Len(frameCalls) = 1
  /\ Len(appended) >= 2

\* C9 as stated: the loop has stopped only if the quit key was seen, the
\* read returned no frame or the capture was not open.
C9_OnlyQuitOrEndOfStream ==
  pc \in Stopped =>
    \/ (key % (KeyMask + 1)) = OrdQ
    \/ ~ret
    \/ ~cap_opened

\* a step taken when the loop has stopped: nothing is read or appended,
\* and the loop is not resumed (the program may be started anew)
StoppedStep ==
  pc \in Stopped =>
    /\ store' = store /\ frames' = frames /\ appended' = appended
    /\ pc' = pc \/ pc' = "while"

\* C9 amended: the loop has stopped only if the quit key was seen, the read
\* returned no frame, the capture was not open, or an exception raised in
\* the loop body (by log_incident or by a detector) went uncaught; once it
\* has stopped, that run reads no frame and appends no row.
C9_StopCauses ==
  /\ [](pc = "done" =>
          \/ (key % (KeyMask + 1)) = OrdQ
          \/ ~ret
          \/ ~cap_opened)
  /\ [](pc = "crashed" => exc \in {"log", "detect"})
  /\ [][StoppedStep]_vars

\* a run ended by a raising log_incident, with no quit key and a frame read
C9_Witness ==
  /\ pc = "crashed" /\ exc = "log" /\ ret /\ cap_opened
  /\ (key % (KeyMask + 1)) # OrdQ

\* C10: over K consecutive complete frames whose inputs ask for the same
\* label, K calls with that label and K audio threads were made, and the
\* last K rows of the store carry that label; each frame's decision is the
\* one its own inputs ask for.
C10_RefiresEveryFrame ==
  /\ streakCalls = streakLen
  /\ streakAudio = streakLen
  /\ pc \in {"while", "done"} /\ streakLen >= 1 =>
       /\ Len(store) >= streakLen
       /\ \A j \in 1..streakLen :
            store[Len(store) - streakLen + j][3] = streakLabel

\* two consecutive frames with a gesture: two SOS rows, two audio threads
C10_Witness ==
  /\ pc = "while" /\ streakLen = 2 /\ streakLabel = LabelSos
  /\ streakCalls = 2 /\ streakAudio = 2
=============================================================================
